---- MODULE Spec2Model ----
(***************************************************************************)
(* Steam games analytics dashboard: the three tables the charts read, the  *)
(* SQL aggregations the fetch functions issue and the classification the   *)
(* views apply to the rows that come back.                                 *)
(*                                                                         *)
(* Numbers.  Player counts and playtimes are integers.  A DECIMAL with two *)
(* fractional digits (pct_change) is held as its unscaled integer, i.e. in *)
(* hundredths: 33.33 is 3333.  A column that may hold SQL NULL (pandas NaN) *)
(* carries NULL or Some(v).                                                *)
(***************************************************************************)
EXTENDS Integers, Sequences, FiniteSets, TLC

VARIABLES
    trending_games,   \* table trending_games: rows (run_date, run_hour, appid)
    games_cleaned,    \* table games_cleaned, the rows of the selected date
    player_count,     \* table player_count: rows (appid, run_date, run_hour, current_players)
    game_catalog,     \* table game_catalog: rows (appid, developer)
    out,              \* what the last fetch or view produced
    connection,       \* what st.cache_resource holds for get_db_connection
    cache,            \* what st.cache_data holds: call key -> stored result
    clock             \* seconds since the process started

vars == <<trending_games, games_cleaned, player_count, game_catalog,
          out, connection, cache, clock>>

\* The state of the Streamlit process besides the page
session == <<connection, cache, clock>>

NULL == <<>>
Some(v) == <<v>>
Val(x) == x[1]

\* ------------------------------------------------------------------ bounds

\* Rows the model lets each table hold.
MaxTrendingRows == 4
MaxGameRows == 4
MaxPlayerRows == 3

\* appids; A, B, C of the spec's scenarios are 1, 2, 3
AppIds == {1, 2, 3}
\* appids that have player_count samples
TrendAppIds == {1, 2}
\* run_dates, as day numbers
Dates == {1, 2}
\* hours the hourly top-100 is sampled at: both ends of the day and hour 1
TrendingHours == {0, 1, 23}
\* hours games_cleaned is sampled at: the window bounds of the momentum query
GameHours == {1, 12, 13}
\* hours player_count is sampled at
PlayerHours == {0, 1}
\* median_playtime_2weeks values (even, so that the mean of two rows is exact)
PlaytimeValues == {0, 150, 200, 300}
\* current_players values
PlayerValues == {0, 400, 1500}

NoResult == [op |-> "none"]
\* get_db_connection has not run yet
NotConnected == "unset"

\* ------------------------------------------------------------------ helpers

Abs(x) == IF x < 0 THEN -x ELSE x

RECURSIVE SumPlaytime(_)
\* SUM(median_playtime_2weeks) over a set of games_cleaned rows
SumPlaytime(rows) ==
    IF rows = {} THEN 0
    ELSE LET r == CHOOSE x \in rows : TRUE
         IN r.median_playtime_2weeks + SumPlaytime(rows \ {r})

RECURSIVE SumPlayers(_)
\* SUM(current_players) over a set of player_count rows
SumPlayers(rows) ==
    IF rows = {} THEN 0
    ELSE LET r == CHOOSE x \in rows : TRUE
         IN r.current_players + SumPlayers(rows \ {r})

\* ROUND of the exact quotient n / d (d > 0) to an integer: MySQL rounds an
\* exact-value number half away from zero.
RoundDiv(n, d) ==
    IF n >= 0 THEN (2 * n + d) \div (2 * d)
    ELSE -((2 * (-n) + d) \div (2 * d))

\* The rows a LIMIT n query without ORDER BY may return: all of them when
\* there are at most n, otherwise any n of them.
LimitRows(rows, n) ==
    IF Cardinality(rows) <= n THEN {rows}
    ELSE {T \in SUBSET rows : Cardinality(T) = n}

\* .head(n)
HeadRows(df, n) == SubSeq(df, 1, IF Len(df) < n THEN Len(df) ELSE n)

\* ------------------------------------------------------------------ the data source

TrendingKey(r) == <<r.run_date, r.run_hour, r.appid>>
GameKey(r) == <<r.appid, r.run_hour>>
PlayerKey(r) == <<r.appid, r.run_date, r.run_hour>>

\* Lexicographic order on tuples of integers of one length
RECURSIVE TupleLess(_, _)
TupleLess(s, t) ==
    /\ s # <<>>
    /\ \/ Head(s) < Head(t)
       \/ Head(s) = Head(t) /\ TupleLess(Tail(s), Tail(t))

\* The collector (outside this repository) fills the tables before the
\* dashboard reads them: one row per key, written in key order.  Each view
\* reads one table, so a behaviour fills the one table its view reads.
IngestTrending(d, h, a) ==
    /\ out = NoResult
    /\ games_cleaned = {} /\ player_count = {}
    /\ Cardinality(trending_games) < MaxTrendingRows
    /\ \A r \in trending_games : TupleLess(TrendingKey(r), <<d, h, a>>)
    /\ trending_games' = trending_games \cup
           {[run_date |-> d, run_hour |-> h, appid |-> a]}
    /\ UNCHANGED <<games_cleaned, player_count, out>>
    /\ UNCHANGED session
    /\ UNCHANGED game_catalog

IngestGame(a, h, v) ==
    /\ out = NoResult
    /\ trending_games = {} /\ player_count = {}
    /\ Cardinality(games_cleaned) < MaxGameRows
    /\ \A r \in games_cleaned : TupleLess(GameKey(r), <<a, h>>)
    /\ games_cleaned' = games_cleaned \cup
           {[appid |-> a, run_hour |-> h, median_playtime_2weeks |-> v]}
    /\ UNCHANGED <<trending_games, player_count, out>>
    /\ UNCHANGED session
    /\ UNCHANGED game_catalog

IngestPlayer(a, d, h, v) ==
    /\ out = NoResult
    /\ trending_games = {} /\ games_cleaned = {}
    /\ Cardinality(player_count) < MaxPlayerRows
    /\ \A r \in player_count : TupleLess(PlayerKey(r), <<a, d, h>>)
    /\ player_count' = player_count \cup
           {[appid |-> a, run_date |-> d, run_hour |-> h, current_players |-> v]}
    /\ UNCHANGED <<trending_games, games_cleaned, out>>
    /\ UNCHANGED session
    /\ UNCHANGED game_catalog

Init ==
    /\ trending_games = {}
    /\ games_cleaned = {}
    /\ player_count = {}
    /\ game_catalog = {}
    /\ out = NoResult
    /\ connection = NotConnected
    /\ cache = <<>>
    /\ clock = 0

\* ------------------------------------------------------------------ top-100 movement

TopLimit == 100
LastHour == 23

\* SELECT appid, name FROM trending_games WHERE run_date = d AND run_hour = h
TrendingWindow(d, h) ==
    {r \in trending_games : r.run_date = d /\ r.run_hour = h}

\* set(result['appid'].tolist()) if not result.empty else set()
AppidSet(rows) == {r.appid : r \in rows}

PrevHour(run_hour) == IF run_hour - 1 < 0 THEN LastHour ELSE run_hour - 1
PrevDate_SameDay(run_date, run_hour) == run_date
\* run_date is a calendar day, held as its day number: the code parses it,
\* subtracts timedelta(days=1) and formats the day before.
PrevDate(run_date, run_hour) == IF run_hour - 1 < 0 THEN run_date - 1 ELSE run_date

MovementRising_Keep(current_appids, prev_appids) == current_appids
MovementRising(current_appids, prev_appids) == current_appids \ prev_appids
MovementHolding(current_appids, prev_appids) == current_appids \cap prev_appids
MovementFalling(current_appids, prev_appids) == prev_appids \ current_appids

\* Which of the n queries of a fetch raises mysql.connector.Error: none (0)
\* or the i-th.  The queries before it have run, the ones after it never do.
QueryFailures(n) == 0..n

MovementFailed_Partial(run_date, run_hour, queries, current_result) ==
    [op |-> "movement", run_date |-> run_date, run_hour |-> run_hour,
     queries |-> queries, error |-> TRUE,
     rising |-> AppidSet(current_result), holding |-> {}, falling |-> {},
     current_df |-> current_result, prev_df |-> {}]
\* except Error: st.error(...) and the all-empty result, whatever the first
\* query had returned
MovementFailed(run_date, run_hour, queries, current_result) ==
    [op |-> "movement", run_date |-> run_date, run_hour |-> run_hour,
     queries |-> queries, error |-> TRUE,
     rising |-> {}, holding |-> {}, falling |-> {},
     current_df |-> {}, prev_df |-> {}]

\* hours the movement is asked for: hour 0, the hours after the sampled
\* ones, midday and the last hour of the day
MovementHours == {0, 1, 2, 12, 23}

\* fetch_top_100_movement_data.  queries holds the (run_date, run_hour)
\* parameters of the pd.read_sql calls made, error whether st.error was shown.
fetch_top_100_movement_data(run_date, run_hour) ==
    /\ out = NoResult
    /\ \E failed \in QueryFailures(2) :
       \E current_result \in LimitRows(TrendingWindow(run_date, run_hour), TopLimit) :
       \E prev_result \in LimitRows(TrendingWindow(PrevDate(run_date, run_hour),
                                                   PrevHour(run_hour)), TopLimit) :
          LET current_appids == AppidSet(current_result)
              prev_appids == AppidSet(prev_result)
              prev_params == <<PrevDate(run_date, run_hour), PrevHour(run_hour)>>
          IN IF failed = 0
             THEN out' = [op |-> "movement",
                          run_date |-> run_date,
                          run_hour |-> run_hour,
                          queries |-> <<<<run_date, run_hour>>, prev_params>>,
                          error |-> FALSE,
                          rising |-> MovementRising(current_appids, prev_appids),
                          holding |-> MovementHolding(current_appids, prev_appids),
                          falling |-> MovementFalling(current_appids, prev_appids),
                          current_df |-> current_result,
                          prev_df |-> prev_result]
             ELSE IF failed = 1
             THEN out' = MovementFailed(run_date, run_hour,
                                        <<<<run_date, run_hour>>>>, {})
             ELSE out' = MovementFailed(run_date, run_hour,
                                        <<<<run_date, run_hour>>, prev_params>>,
                                        current_result)
    /\ UNCHANGED <<trending_games, games_cleaned, player_count>>
    /\ UNCHANGED session
    /\ UNCHANGED game_catalog

NextMovement ==
    \/ \E d \in Dates, h \in TrendingHours, a \in AppIds : IngestTrending(d, h, a)
    \/ \E d \in Dates, h \in MovementHours : fetch_top_100_movement_data(d, h)

SpecMovement == Init /\ [][NextMovement]_vars

\* C1: whatever the current and the previous hour hold, the movement sets are
\* rising = current - previous, holding = current & previous, falling =
\* previous - current; they are pairwise disjoint and cover current | previous.
C1_MovementPartition ==
    out.op = "movement" =>
        LET cur == {r.appid : r \in out.current_df}
            prev == {r.appid : r \in out.prev_df}
        IN /\ out.rising = {a \in cur : a \notin prev}
           /\ out.holding = {a \in cur : a \in prev}
           /\ out.falling = {a \in prev : a \notin cur}
           /\ out.rising \cap out.holding = {}
           /\ out.rising \cap out.falling = {}
           /\ out.holding \cap out.falling = {}
           /\ out.rising \cup out.holding \cup out.falling = cur \cup prev

\* An hour with a newcomer, a stayer and a dropout
C1_Witness ==
    /\ out.op = "movement"
    /\ out.rising # {} /\ out.holding # {} /\ out.falling # {}

\* C12: the previous window of a movement fetch is (run_date, run_hour - 1)
\* for run_hour in 1..23 and (run_date - 1 day, 23) for run_hour 0: its hour
\* lies in 0..23, it is the hour immediately before the current one, and the
\* previous frame holds exactly the rows of that window.
C12_PreviousWindow ==
    (out.op = "movement" /\ Len(out.queries) = 2) =>
        LET prev_date == out.queries[2][1]
            prev_hour == out.queries[2][2]
        IN /\ out.queries[1] = <<out.run_date, out.run_hour>>
           /\ prev_hour \in 0..23
           /\ out.run_hour \in 1..23 =>
                  (prev_date = out.run_date /\ prev_hour = out.run_hour - 1)
           /\ out.run_hour = 0 =>
                  (prev_date = out.run_date - 1 /\ prev_hour = 23)
           /\ 24 * prev_date + prev_hour + 1 = 24 * out.run_date + out.run_hour
           /\ ~out.error =>
                  out.prev_df = {r \in trending_games :
                                    r.run_date = prev_date /\ r.run_hour = prev_hour}

\* Hour 0 of a day whose eve has rows at hour 23
C12_Witness ==
    /\ out.op = "movement"
    /\ ~out.error
    /\ out.run_hour = 0
    /\ out.queries[2] = <<out.run_date - 1, 23>>
    /\ out.prev_df # {}

\* C15: a data source failure during a fetch yields the empty result with the
\* error shown, never a partial one; when the current-hour query of the
\* movement fetch succeeds and the previous-hour query fails, the three sets
\* and both frames are empty.
C15_FailureEmpty ==
    (out.op = "movement" /\ out.error) =>
        /\ out.rising = {} /\ out.holding = {} /\ out.falling = {}
        /\ out.current_df = {} /\ out.prev_df = {}

\* The previous-hour query fails after the current hour returned rows
C15_Witness ==
    /\ out.op = "movement"
    /\ out.error
    /\ Len(out.queries) = 2
    /\ TrendingWindow(out.run_date, out.run_hour) # {}
    /\ out.current_df = {}

\* ------------------------------------------------------------------ top trending games

\* Rows the model lets games_cleaned hold when the ranking reads it
MaxRankedRows == 6
\* appids of the ranked games: one more than the smallest top_n of the slider
RankedAppIds == 1..6
\* the hour the ranked games are sampled at
RankedHours == {12}
\* current_players values: 400 rounds to 0 thousand, 1500 to 2 thousand
RankedValues == {400, 1500}
\* top_n values of the sidebar slider (5 to 50 in steps of 5)
TopNs == {5, 10}

\* games_cleaned as the ranking reads it: (appid, run_hour, current_players)
IngestRanked(a, h, v) ==
    /\ out = NoResult
    /\ trending_games = {} /\ player_count = {}
    /\ Cardinality(games_cleaned) < MaxRankedRows
    /\ \A r \in games_cleaned : TupleLess(GameKey(r), <<a, h>>)
    /\ games_cleaned' = games_cleaned \cup
           {[appid |-> a, run_hour |-> h, current_players |-> v]}
    /\ UNCHANGED <<trending_games, player_count, out>>
    /\ UNCHANGED session
    /\ UNCHANGED game_catalog

\* SELECT appid, ROUND(AVG(current_players) / 1000) AS avg_players_k
\* FROM games_cleaned WHERE run_date = %s GROUP BY appid, name
TrendingGroups ==
    {[appid |-> a,
      avg_players_k |->
          LET group == {r \in games_cleaned : r.appid = a}
          IN RoundDiv(SumPlayers(group), 1000 * Cardinality(group))] :
        a \in {r.appid : r \in games_cleaned}}

\* ORDER BY avg_players_k DESC: every arrangement with the column
\* non-increasing; rows equal in it come in any order the server picks.
RECURSIVE OrderByAvgPlayersDesc(_)
OrderByAvgPlayersDesc(rows) ==
    IF rows = {} THEN {<<>>}
    ELSE UNION {{<<r>> \o s : s \in OrderByAvgPlayersDesc(rows \ {r})} :
                   r \in {x \in rows :
                              \A y \in rows : y.avg_players_k <= x.avg_players_k}}

SqlLimit_All(ordered, n) == ordered
\* LIMIT n on an ordered result
SqlLimit(ordered, n) == SubSeq(ordered, 1, IF Len(ordered) < n THEN Len(ordered) ELSE n)

TrendingFailed_Reraise(limit) ==
    [op |-> "fetch_top_trending_games_data", limit |-> limit, queries |-> 1,
     error |-> FALSE, raised |-> TRUE, result |-> <<>>]
\* except Error as e: st.error(...); return pd.DataFrame()
TrendingFailed(limit) ==
    [op |-> "fetch_top_trending_games_data", limit |-> limit, queries |-> 1,
     error |-> TRUE, raised |-> FALSE, result |-> <<>>]

\* What fetch_top_trending_games_data can return for the selected date.
\* queries counts the pd.read_sql calls made, error tells whether st.error
\* was shown and raised whether an exception left the function.
TopTrendingResults(limit) ==
    {IF failed = 0
     THEN [op |-> "fetch_top_trending_games_data",
           limit |-> limit,
           queries |-> 1,
           error |-> FALSE,
           raised |-> FALSE,
           result |-> SqlLimit(ordered, limit)]
     ELSE TrendingFailed(limit) :
        failed \in QueryFailures(1), ordered \in OrderByAvgPlayersDesc(TrendingGroups)}

fetch_top_trending_games_data(limit) ==
    /\ out = NoResult
    /\ trending_games = {} /\ player_count = {}
    /\ out' \in TopTrendingResults(limit)
    /\ UNCHANGED <<trending_games, games_cleaned, player_count>>
    /\ UNCHANGED session
    /\ UNCHANGED game_catalog

NextRanking ==
    \/ \E a \in RankedAppIds, h \in RankedHours, v \in RankedValues :
           IngestRanked(a, h, v)
    \/ \E limit \in TopNs : fetch_top_trending_games_data(limit)

SpecRanking == Init /\ [][NextRanking]_vars

RankingFetched == out.op = "fetch_top_trending_games_data" /\ ~out.error

\* C13: the top-N fetch returns the N candidates with the largest metric,
\* in descending order of the metric with ties broken by ascending appid,
\* and all candidates in that order when N exceeds their number.
C13_TopNTieBreak ==
    RankingFetched =>
        LET n == Len(out.result)
            Before(x, y) == \/ x.avg_players_k > y.avg_players_k
                            \/ /\ x.avg_players_k = y.avg_players_k
                               /\ x.appid < y.appid
        IN /\ n = IF Cardinality(TrendingGroups) < out.limit
                  THEN Cardinality(TrendingGroups) ELSE out.limit
           /\ \A i \in 1..n : out.result[i] \in TrendingGroups
           /\ \A i, j \in 1..n : i < j => Before(out.result[i], out.result[j])
           /\ \A c \in TrendingGroups :
                  (\A i \in 1..n : out.result[i] # c) =>
                      \A i \in 1..n : Before(out.result[i], c)

\* C13, amended: the fetch returns min(N, candidates) distinct candidates, the
\* metric non-increasing along the result and no omitted candidate above a
\* returned one; candidates equal in the metric come in no particular order,
\* and which of them falls under the limit is not determined.
C13_TopNLargest ==
    RankingFetched =>
        LET n == Len(out.result)
        IN /\ n = IF Cardinality(TrendingGroups) < out.limit
                  THEN Cardinality(TrendingGroups) ELSE out.limit
           /\ \A i \in 1..n : out.result[i] \in TrendingGroups
           /\ \A i, j \in 1..n : i # j => out.result[i] # out.result[j]
           /\ \A i, j \in 1..n :
                  i < j => out.result[i].avg_players_k >= out.result[j].avg_players_k
           /\ \A c \in TrendingGroups :
                  (\A i \in 1..n : out.result[i] # c) =>
                      \A i \in 1..n : out.result[i].avg_players_k >= c.avg_players_k

\* Six candidates under limit 5, a tie across the cut, and two tied rows
\* returned with the larger appid first
C13_Witness ==
    /\ RankingFetched
    /\ out.limit = 5
    /\ Cardinality(TrendingGroups) = 6
    /\ Len(out.result) = 5
    /\ out.result[1].avg_players_k = out.result[2].avg_players_k
    /\ out.result[1].appid > out.result[2].appid
    /\ \E c \in TrendingGroups :
          /\ \A i \in 1..5 : out.result[i] # c
          /\ c.avg_players_k = out.result[5].avg_players_k

\* C16 as stated: a data source failure reaches the caller of the fetch
\* unmodified, and no default value stands in for the failed result.
C16_FailurePropagated ==
    (out.op = "fetch_top_trending_games_data" /\ out.queries = 1 /\ out.result = <<>>
        /\ TrendingGroups # {})
        => out.raised

\* C16, amended: the fetch catches the failure, shows it with st.error and
\* returns the empty frame in its place; the query is made once, not retried,
\* and no exception leaves the function.
C16_FailureSwallowed ==
    out.op = "fetch_top_trending_games_data" =>
        /\ ~out.raised
        /\ out.queries = 1
        /\ out.error => out.result = <<>>
        /\ (out.result = <<>> /\ TrendingGroups # {}) => out.error

\* The query fails on a date that has games
C16_Witness ==
    /\ out.op = "fetch_top_trending_games_data"
    /\ out.error
    /\ ~out.raised
    /\ out.result = <<>>
    /\ TrendingGroups # {}

\* The same fetch called once more with the arguments of the call before,
\* on the same tables
fetch_top_trending_games_data_again ==
    /\ out.op = "fetch_top_trending_games_data"
    /\ out' \in TopTrendingResults(out.limit)
    /\ UNCHANGED <<trending_games, games_cleaned, player_count>>
    /\ UNCHANGED session
    /\ UNCHANGED game_catalog

NextRepeat ==
    \/ \E a \in RankedAppIds, h \in RankedHours, v \in RankedValues :
           IngestRanked(a, h, v)
    \/ \E limit \in TopNs : fetch_top_trending_games_data(limit)
    \/ fetch_top_trending_games_data_again

SpecRepeat == Init /\ [][NextRepeat]_vars

ResultRows(result) == {result[i] : i \in 1..Len(result)}

\* C17: two calls of a fetch with the same arguments on an unchanged data
\* source return set-equal results.
C17_Idempotent ==
    [][(/\ out.op = "fetch_top_trending_games_data"
        /\ out'.op = "fetch_top_trending_games_data"
        /\ out'.limit = out.limit
        /\ ~out.error /\ ~out'.error
        /\ games_cleaned' = games_cleaned)
       => ResultRows(out'.result) = ResultRows(out.result)]_vars

\* ------------------------------------------------------------------ price vs review sentiment

\* Prices are held in cents, sentiment_pct (one fractional digit) in tenths
\* of a percent, and a quantile of either in quarters of that unit.

\* Rows the model lets games_cleaned hold when the price page reads it
MaxPricedRows == 4
PricedAppIds == 1..4
PricedHours == {12}
\* price_usd in cents; 0 is a free game
Prices == {0, 100, 1000, 2000}
\* (positive_reviews, negative_reviews): 90.0%, 95.2%, 10.0%, and a game
\* with fewer than 10 reviews
ReviewCounts == {<<9, 1>>, <<20, 1>>, <<1, 9>>, <<2, 1>>}
MinReviews == 10

\* games_cleaned as the price page reads it
IngestPriced(a, h, price, reviews) ==
    /\ out = NoResult
    /\ trending_games = {} /\ player_count = {}
    /\ Cardinality(games_cleaned) < MaxPricedRows
    /\ \A r \in games_cleaned : TupleLess(GameKey(r), <<a, h>>)
    /\ games_cleaned' = games_cleaned \cup
           {[appid |-> a, run_hour |-> h, price_usd |-> price,
             positive_reviews |-> reviews[1], negative_reviews |-> reviews[2]]}
    /\ UNCHANGED <<trending_games, player_count, out>>
    /\ UNCHANGED session
    /\ UNCHANGED game_catalog

RECURSIVE MaxPrice(_)
\* MAX(price_usd) over a non-empty group
MaxPrice(rows) ==
    LET r == CHOOSE x \in rows : TRUE
    IN IF rows = {r} THEN r.price_usd
       ELSE LET m == MaxPrice(rows \ {r})
            IN IF r.price_usd > m THEN r.price_usd ELSE m

RECURSIVE SumPositive(_)
SumPositive(rows) ==
    IF rows = {} THEN 0
    ELSE LET r == CHOOSE x \in rows : TRUE
         IN r.positive_reviews + SumPositive(rows \ {r})

RECURSIVE SumNegative(_)
SumNegative(rows) ==
    IF rows = {} THEN 0
    ELSE LET r == CHOOSE x \in rows : TRUE
         IN r.negative_reviews + SumNegative(rows \ {r})

\* The query without its HAVING clause
PriceSentimentRows_NoHaving ==
    LET paid == {r \in games_cleaned : r.price_usd > 0}
    IN {[appid |-> a,
         price_usd |-> MaxPrice({r \in paid : r.appid = a}),
         positive_reviews |-> SumPositive({r \in paid : r.appid = a}),
         negative_reviews |-> SumNegative({r \in paid : r.appid = a})] :
           a \in {r.appid : r \in paid}}

\* The query of fetch_price_sentiment_data: paid games with at least 10 reviews
PriceSentimentRows ==
    LET paid == {r \in games_cleaned : r.price_usd > 0}
        groups == {[appid |-> a,
                    price_usd |-> MaxPrice({r \in paid : r.appid = a}),
                    positive_reviews |-> SumPositive({r \in paid : r.appid = a}),
                    negative_reviews |-> SumNegative({r \in paid : r.appid = a})] :
                      a \in {r.appid : r \in paid}}
    IN {g \in groups : g.positive_reviews + g.negative_reviews >= MinReviews}

\* round(n / d, 1 digit) in tenths: numpy rounds a half to the even digit
RoundHalfEven(n, d) ==
    LET q == n \div d
        twice == 2 * (n % d)
    IN IF twice < d THEN q
       ELSE IF twice > d THEN q + 1
       ELSE IF q % 2 = 0 THEN q ELSE q + 1

\* (positive_reviews / total_reviews * 100).round(1)
SentimentPct(positive_reviews, total_reviews) ==
    RoundHalfEven(positive_reviews * 1000, total_reviews)

\* data with the total_reviews and sentiment_pct columns
WithSentiment(data) ==
    {[appid |-> r.appid,
      price_usd |-> r.price_usd,
      total_reviews |-> r.positive_reviews + r.negative_reviews,
      sentiment_pct |-> SentimentPct(r.positive_reviews,
                                     r.positive_reviews + r.negative_reviews)] :
        r \in data}

RECURSIVE SortedColumn(_)
\* The values of a column, ascending; cells are <<value, appid>>
SortedColumn(cells) ==
    IF cells = {} THEN <<>>
    ELSE LET m == CHOOSE p \in cells : \A q \in cells : p[1] <= q[1]
         IN <<m[1]>> \o SortedColumn(cells \ {m})

\* Series.quantile(quarters / 4) with linear interpolation, times 4: the
\* position (n - 1) * quarters / 4 between two neighbours of the sorted column
Quantile(cells, quarters) ==
    LET col == SortedColumn(cells)
        pos == (Len(col) - 1) * quarters
        lo == pos \div 4 + 1
        part == pos % 4
    IN IF part = 0 THEN 4 * col[lo]
       ELSE 4 * col[lo] + part * (col[lo + 1] - col[lo])

SentimentCells(data) == {<<r.sentiment_pct, r.appid>> : r \in data}
PriceCells(data) == {<<r.price_usd, r.appid>> : r \in data}

Bargains_Either(data, threshold_sentiment, threshold_price) ==
    {r \in data : \/ 4 * r.sentiment_pct >= threshold_sentiment
                  \/ 4 * r.price_usd <= threshold_price}
\* data[(sentiment_pct >= threshold_sentiment) & (price_usd <= threshold_price)]
Bargains(data, threshold_sentiment, threshold_price) ==
    {r \in data : /\ 4 * r.sentiment_pct >= threshold_sentiment
                  /\ 4 * r.price_usd <= threshold_price}
\* data[(sentiment_pct <= threshold_sentiment) & (price_usd >= threshold_price)]
Overpriced(data, threshold_sentiment, threshold_price) ==
    {r \in data : /\ 4 * r.sentiment_pct <= threshold_sentiment
                  /\ 4 * r.price_usd >= threshold_price}

NoPricePage_Rendered(error) ==
    [op |-> "show_price_vs_review_sentiment", shown |-> "no_data",
     chart |-> TRUE, warning |-> FALSE, error |-> error,
     data |-> {}, bargains |-> {}, overpriced |-> {}]
\* st.warning("No data available for ...") and return
NoPricePage(error) ==
    [op |-> "show_price_vs_review_sentiment", shown |-> "no_data",
     chart |-> FALSE, warning |-> TRUE, error |-> error,
     data |-> {}, bargains |-> {}, overpriced |-> {}]

\* The pages show_price_vs_review_sentiment can render for the selected
\* date.  The two tables show the ten best of bargains and overpriced.
PriceSentimentPages ==
    {LET fetched == IF failed = 0 THEN PriceSentimentRows ELSE {}
         data == WithSentiment(fetched)
     IN IF fetched = {}
        THEN NoPricePage(failed # 0)
        ELSE [op |-> "show_price_vs_review_sentiment",
              shown |-> "chart",
              chart |-> TRUE,
              warning |-> FALSE,
              error |-> FALSE,
              data |-> data,
              bargains |-> Bargains(data,
                               Quantile(SentimentCells(data), 3),
                               Quantile(PriceCells(data), 1)),
              overpriced |-> Overpriced(data,
                               Quantile(SentimentCells(data), 1),
                               Quantile(PriceCells(data), 3))] :
        failed \in QueryFailures(1)}

show_price_vs_review_sentiment ==
    /\ out = NoResult
    /\ trending_games = {} /\ player_count = {}
    /\ out' \in PriceSentimentPages
    /\ UNCHANGED <<trending_games, games_cleaned, player_count>>
    /\ UNCHANGED session
    /\ UNCHANGED game_catalog

NextPrice ==
    \/ \E a \in PricedAppIds, h \in PricedHours, price \in Prices, reviews \in ReviewCounts :
           IngestPriced(a, h, price, reviews)
    \/ show_price_vs_review_sentiment

SpecPrice == Init /\ [][NextPrice]_vars

PriceShown == out.op = "show_price_vs_review_sentiment" /\ out.shown = "chart"

\* The four conditions for a row of the rendered page
HighSentiment(r) == 4 * r.sentiment_pct >= Quantile(SentimentCells(out.data), 3)
LowPrice(r) == 4 * r.price_usd <= Quantile(PriceCells(out.data), 1)
LowSentiment(r) == 4 * r.sentiment_pct <= Quantile(SentimentCells(out.data), 1)
HighPrice(r) == 4 * r.price_usd >= Quantile(PriceCells(out.data), 3)

\* C14 as stated: a game is a bargain iff sentiment >= P75(sentiment) and
\* price <= P25(price), overpriced iff sentiment <= P25(sentiment) and price >=
\* P75(price), and a game that satisfies only one of the two conditions of a
\* quadrant is in neither list.
C14_OneConditionInNeither ==
    PriceShown =>
        \A r \in out.data :
            /\ r \in out.bargains <=> (HighSentiment(r) /\ LowPrice(r))
            /\ r \in out.overpriced <=> (LowSentiment(r) /\ HighPrice(r))
            /\ (HighSentiment(r) # LowPrice(r) \/ LowSentiment(r) # HighPrice(r))
                   => (r \notin out.bargains /\ r \notin out.overpriced)

\* C14, amended: both lists are conjunctions over the rows of the page; a
\* game that satisfies only one condition of a quadrant is not in that
\* quadrant's list (it can be in the other one when the quantiles coincide).
C14_QuadrantConjunction ==
    PriceShown =>
        /\ out.bargains \subseteq out.data
        /\ out.overpriced \subseteq out.data
        /\ \A r \in out.data :
               /\ r \in out.bargains <=> (HighSentiment(r) /\ LowPrice(r))
               /\ r \in out.overpriced <=> (LowSentiment(r) /\ HighPrice(r))
               /\ HighSentiment(r) # LowPrice(r) => r \notin out.bargains
               /\ LowSentiment(r) # HighPrice(r) => r \notin out.overpriced

\* Prices 1.00, 10.00, 20.00, 20.00 with sentiments 95.2, 90.0, 10.0, 90.0:
\* P25(price) is 7.75 and P75(sentiment) 91.3, so game 1 is the one bargain,
\* game 2 has the sentiment of no quadrant, game 3 is overpriced, and game 4
\* meets the price condition of overpriced alone and is in neither list.
C14_Witness ==
    /\ PriceShown
    /\ {<<r.appid, r.price_usd, r.sentiment_pct>> : r \in out.data}
          = {<<1, 100, 952>>, <<2, 1000, 900>>, <<3, 2000, 100>>, <<4, 2000, 900>>}
    /\ Quantile(PriceCells(out.data), 1) = 4 * 775
    /\ Quantile(SentimentCells(out.data), 3) = 4 * 913
    /\ {r.appid : r \in out.bargains} = {1}
    /\ {r.appid : r \in out.overpriced} = {3}

\* C26: the bargain list and the overpriced list of a page are disjoint.
C26_ListsDisjoint ==
    PriceShown => out.bargains \cap out.overpriced = {}

\* ------------------------------------------------------------------ momentum

TOTAL_GAMES_TO_DISPLAY == 30
RISING_THRESHOLD == 200
FALLING_THRESHOLD == -200
morning_start == 1
morning_end == 12
afternoon_start == 13
afternoon_end == 23

\* WHERE run_date = %s AND run_hour BETWEEN lo AND hi
WindowRows(lo, hi) ==
    {r \in games_cleaned : r.run_hour >= lo /\ r.run_hour <= hi}

\* AVG(median_playtime_2weeks) of a non-empty group.  The quotient is exact:
\* the values are even and a window holds at most two sampled hours.
AvgPlaytime(rows) == SumPlaytime(rows) \div Cardinality(rows)

\* SELECT appid, AVG(...) ... GROUP BY appid: one row per appid of the window
WindowAverages(lo, hi) ==
    LET rows == WindowRows(lo, hi)
    IN {[appid |-> a, avg |-> Some(AvgPlaytime({r \in rows : r.appid = a}))] :
            a \in {r.appid : r \in rows}}

\* COALESCE(x, d)
Coalesce(x, d) == IF x = NULL THEN d ELSE x

\* x - y in SQL: NULL when either operand is NULL
SqlMinus(x, y) == IF x = NULL \/ y = NULL THEN NULL ELSE Some(Val(x) - Val(y))

\* The appids the join keeps: FROM morning m LEFT JOIN afternoon a
JoinedAppids(morning, afternoon) == {m.appid : m \in morning}

\* The value of column avg of appid a's row, NULL when the side has no such row
SideValue(side, a) ==
    IF \E r \in side : r.appid = a
    THEN (CHOOSE r \in side : r.appid = a).avg
    ELSE NULL

\* (a.avg_afternoon - m.avg_morning) as delta
MomentumDelta(avg_afternoon, avg_morning) == SqlMinus(avg_afternoon, avg_morning)

\* The SELECT list over the joined rows
MomentumRows ==
    LET morning == WindowAverages(morning_start, morning_end)
        afternoon == WindowAverages(afternoon_start, afternoon_end)
    IN {[appid |-> a,
         avg_morning |-> SideValue(morning, a),
         avg_afternoon |-> Coalesce(SideValue(afternoon, a), Some(0)),
         delta |-> MomentumDelta(SideValue(afternoon, a), SideValue(morning, a))] :
            a \in JoinedAppids(morning, afternoon)}

\* ORDER BY delta DESC: MySQL puts NULL after every number when descending;
\* rows with equal delta come in any order.
DeltaDescOk(x, y) == y = NULL \/ (x # NULL /\ Val(x) >= Val(y))

OrderByDeltaDesc(rows) ==
    LET n == Cardinality(rows)
    IN {s \in [1..n -> rows] :
            /\ \A i, j \in 1..n : i # j => s[i] # s[j]
            /\ \A i, j \in 1..n : i < j => DeltaDescOk(s[i].delta, s[j].delta)}

FillNa_Keep(x) == x

\* momentum_df['delta'].fillna(0)
FillNa(x) == IF x = NULL THEN Some(0) ELSE x

MomentumStatus_Inclusive(x, rising_threshold, falling_threshold) ==
    IF x # NULL /\ Val(x) >= rising_threshold THEN "Rising"
    ELSE IF x # NULL /\ Val(x) <= falling_threshold THEN "Falling"
    ELSE "Stable"

MomentumStatus_Validating(x, rising_threshold, falling_threshold) ==
    IF falling_threshold >= rising_threshold THEN "ConfigurationError"
    ELSE IF x # NULL /\ Val(x) > rising_threshold THEN "Rising"
    ELSE IF x # NULL /\ Val(x) < falling_threshold THEN "Falling"
    ELSE "Stable"

\* The lambda without its final else: a delta between the thresholds gets no label
MomentumStatus_TwoWay(x, rising_threshold, falling_threshold) ==
    IF x # NULL /\ Val(x) > rising_threshold THEN "Rising"
    ELSE IF x # NULL /\ Val(x) < falling_threshold THEN "Falling"
    ELSE "None"

\* The lambda without its pd.notna guards: comparing None raises TypeError
MomentumStatus_Unguarded(x, rising_threshold, falling_threshold) ==
    IF x = NULL THEN "TypeError"
    ELSE IF Val(x) > rising_threshold THEN "Rising"
    ELSE IF Val(x) < falling_threshold THEN "Falling"
    ELSE "Stable"

\* lambda x: 'Rising' if pd.notna(x) and x > _RISING_THRESHOLD
\*           else 'Falling' if pd.notna(x) and x < _FALLING_THRESHOLD else 'Stable'
MomentumStatus(x, rising_threshold, falling_threshold) ==
    IF x # NULL /\ Val(x) > rising_threshold THEN "Rising"
    ELSE IF x # NULL /\ Val(x) < falling_threshold THEN "Falling"
    ELSE "Stable"

\* The frame after fillna and the status column
Classified(df) ==
    [i \in 1..Len(df) |->
        LET x == FillNa(df[i].delta)
        IN [appid |-> df[i].appid,
            avg_morning |-> df[i].avg_morning,
            avg_afternoon |-> df[i].avg_afternoon,
            delta |-> x,
            status |-> MomentumStatus(x, RISING_THRESHOLD, FALLING_THRESHOLD)]]

\* momentum_df[momentum_df['status'] == label]
WithStatus(df, label) == SelectSeq(df, LAMBDA r : r.status = label)

\* A page of show_top_trending_games without momentum tables.  chart tells
\* whether the bar chart was rendered, warning whether st.warning was shown
\* and error whether st.error was.
PageWithoutMomentum(shown, chart, warning, error) ==
    [op |-> "show_top_trending_games", shown |-> shown,
     chart |-> chart, warning |-> warning, error |-> error,
     momentum_df |-> <<>>, rising |-> 0, stable |-> 0, falling |-> 0,
     rising_games |-> <<>>, stable_games |-> <<>>, falling_games |-> <<>>]

\* The pages show_top_trending_games can render for the selected date.
\* games_data, the bar chart's frame, is empty exactly when the date has no
\* row in games_cleaned or its query failed; the chart itself takes no part
\* in the momentum frame.
TopTrendingGamesPages ==
    {IF games_cleaned = {} \/ failed = 1
     THEN \* games_data.empty: the warning, and nothing else is rendered
          PageWithoutMomentum("no_data", FALSE, TRUE, failed = 1)
     ELSE IF failed = 2
     THEN \* except Exception: the chart is on the page, then st.error
          PageWithoutMomentum("momentum_error", TRUE, FALSE, TRUE)
     ELSE IF result = <<>>
     THEN PageWithoutMomentum("no_momentum", TRUE, TRUE, FALSE)
     ELSE LET momentum_df == Classified(result)
          IN [op |-> "show_top_trending_games", shown |-> "momentum",
              chart |-> TRUE, warning |-> FALSE, error |-> FALSE,
              momentum_df |-> momentum_df,
              rising |-> Len(WithStatus(momentum_df, "Rising")),
              stable |-> Len(WithStatus(momentum_df, "Stable")),
              falling |-> Len(WithStatus(momentum_df, "Falling")),
              rising_games |-> HeadRows(WithStatus(momentum_df, "Rising"),
                                        TOTAL_GAMES_TO_DISPLAY),
              stable_games |-> HeadRows(WithStatus(momentum_df, "Stable"),
                                        TOTAL_GAMES_TO_DISPLAY),
              falling_games |-> HeadRows(WithStatus(momentum_df, "Falling"),
                                         TOTAL_GAMES_TO_DISPLAY)] :
        failed \in QueryFailures(IF games_cleaned = {} THEN 1 ELSE 2),
        result \in OrderByDeltaDesc(MomentumRows)}

\* show_top_trending_games; the page is rendered once per behaviour (a rerun
\* over the same tables renders the same pages).
show_top_trending_games ==
    /\ out = NoResult
    /\ trending_games = {} /\ player_count = {}
    /\ out' \in TopTrendingGamesPages
    /\ UNCHANGED <<trending_games, games_cleaned, player_count>>
    /\ UNCHANGED session
    /\ UNCHANGED game_catalog

NextMomentum ==
    \/ \E a \in AppIds, h \in GameHours, v \in PlaytimeValues : IngestGame(a, h, v)
    \/ show_top_trending_games

SpecMomentum == Init /\ [][NextMomentum]_vars

\* The rows of the momentum frame the view classified
MomentumShown == out.op = "show_top_trending_games" /\ out.shown = "momentum"
OutRows == {out.momentum_df[i] : i \in 1..Len(out.momentum_df)}
\* The appids with a snapshot in the morning (previous) and in the afternoon
\* (current) window, and their window means
MorningAppids == {r.appid : r \in WindowRows(1, 12)}
AfternoonAppids == {r.appid : r \in WindowRows(13, 23)}
MeanOf(a, lo, hi) ==
    LET rows == {r \in WindowRows(lo, hi) : r.appid = a}
    IN SumPlaytime(rows) \div Cardinality(rows)

C3_OuterJoinComplete ==
    out.op = "show_top_trending_games" =>
        {r.appid : r \in OutRows} = MorningAppids \cup AfternoonAppids

\* C4: an appid present only in the afternoon (current) window has a record
\* whose delta is its afternoon value.
C4_NewEntityDelta ==
    out.op = "show_top_trending_games" =>
        \A a \in AfternoonAppids \ MorningAppids :
            \E r \in OutRows : r.appid = a /\ r.delta = Some(MeanOf(a, 13, 23))

\* C5: an appid present only in the morning (previous) window has delta
\* minus its morning value, and is Falling when that value exceeds 200.
C5_DroppedEntityDelta ==
    out.op = "show_top_trending_games" =>
        \A a \in MorningAppids \ AfternoonAppids :
            \E r \in OutRows :
                /\ r.appid = a
                /\ r.delta = Some(0 - MeanOf(a, 1, 12))
                /\ MeanOf(a, 1, 12) > 200 => r.status = "Falling"

\* C6: current {(A,150),(B,200)}, previous {(B,0),(C,300)} gives A delta 150
\* Stable, B delta 200 Stable, C delta -300 Falling.
C6_Scenario ==
    ( /\ out.op = "show_top_trending_games"
      /\ games_cleaned =
            {[appid |-> 1, run_hour |-> 13, median_playtime_2weeks |-> 150],
             [appid |-> 2, run_hour |-> 13, median_playtime_2weeks |-> 200],
             [appid |-> 2, run_hour |-> 12, median_playtime_2weeks |-> 0],
             [appid |-> 3, run_hour |-> 12, median_playtime_2weeks |-> 300]} )
    => /\ \E r \in OutRows : r.appid = 1 /\ r.delta = Some(150) /\ r.status = "Stable"
       /\ \E r \in OutRows : r.appid = 2 /\ r.delta = Some(200) /\ r.status = "Stable"
       /\ \E r \in OutRows : r.appid = 3 /\ r.delta = Some(-300) /\ r.status = "Falling"

\* C9: the page's own description of the thresholds: +200 or more is Rising,
\* -200 or lower is Falling, Stable only within -200..+200.
C9_InclusiveThresholds ==
    MomentumShown =>
        \A r \in OutRows :
            /\ Val(r.delta) >= 200 => r.status = "Rising"
            /\ Val(r.delta) <= -200 => r.status = "Falling"
            /\ r.status = "Stable" => (Val(r.delta) >= -200 /\ Val(r.delta) <= 200)

\* C21: no appid without a raw record in a window is given a value for that
\* window: the two window aggregations hold only appids with records, and a
\* row of the comparison shows an afternoon value only for an appid with an
\* afternoon record.
C21_AbsenceNotZero ==
    /\ {r.appid : r \in WindowAverages(morning_start, morning_end)} = MorningAppids
    /\ {r.appid : r \in WindowAverages(afternoon_start, afternoon_end)} = AfternoonAppids
    /\ MomentumShown =>
          \A r \in OutRows : r.avg_afternoon # NULL => r.appid \in AfternoonAppids

\* Whether the deltas shown in a tab never increase from one row to the next
TabSorted(tab) ==
    \A i, j \in 1..Len(tab) : i < j => Val(tab[i].delta) >= Val(tab[j].delta)

\* The rows of a tab
TabRows(tab) == {tab[i] : i \in 1..Len(tab)}

\* C25: each tab lists the rows of its label (at most 30, those with the
\* largest deltas) in non-increasing order of the delta shown, the rows whose
\* delta was NULL and is shown as 0 included.
C25_TabsSorted ==
    MomentumShown =>
        /\ TabSorted(out.rising_games)
        /\ TabSorted(out.stable_games)
        /\ TabSorted(out.falling_games)
        /\ Len(out.momentum_df) <= TOTAL_GAMES_TO_DISPLAY =>
              /\ TabRows(out.rising_games) = {r \in OutRows : r.status = "Rising"}
              /\ TabRows(out.stable_games) = {r \in OutRows : r.status = "Stable"}
              /\ TabRows(out.falling_games) = {r \in OutRows : r.status = "Falling"}

\* ------------------------------------------------------------------ the classifier alone

\* The lambda of show_top_trending_games reads a delta and the two thresholds
\* of its enclosing scope.  Here it is applied to one delta under a pair of
\* thresholds, the program's pair (200, -200) among them.
ClassifierDeltas ==
    {NULL} \cup {Some(x) : x \in {-300, -201, -200, -199, -1, 0, 1, 199, 200, 201, 300}}
ClassifierThresholds == {FALLING_THRESHOLD, 0, RISING_THRESHOLD}

ClassifyDelta(x, rising_threshold, falling_threshold) ==
    /\ out = NoResult \/ out.op = "classify"
    /\ trending_games = {} /\ games_cleaned = {} /\ player_count = {}
    /\ out' = [op |-> "classify",
               delta |-> x,
               rising_threshold |-> rising_threshold,
               falling_threshold |-> falling_threshold,
               status |-> MomentumStatus(x, rising_threshold, falling_threshold)]
    /\ UNCHANGED <<trending_games, games_cleaned, player_count>>
    /\ UNCHANGED session
    /\ UNCHANGED game_catalog

NextClassifier ==
    \E x \in ClassifierDeltas, r \in ClassifierThresholds, f \in ClassifierThresholds :
        ClassifyDelta(x, r, f)

SpecClassifier == Init /\ [][NextClassifier]_vars

C11_NullDeltaStable ==
    (out.op = "classify" /\ out.delta = NULL) => out.status = "Stable"

\* A null delta classified under the program's thresholds (200, -200)
C11_Witness ==
    /\ out.op = "classify"
    /\ out.delta = NULL
    /\ out.rising_threshold = RISING_THRESHOLD
    /\ out.falling_threshold = FALLING_THRESHOLD
    /\ out.status = "Stable"

\* The classifier on one delta under any pair of thresholds, and on the
\* frames of the page
NextCounts == NextMomentum \/ NextClassifier
SpecCounts == Init /\ [][NextCounts]_vars

MomentumLabels == {"Rising", "Stable", "Falling"}

\* C22: every delta gets exactly one of Rising, Stable, Falling under any
\* pair of thresholds, and the three counts of the page sum to the number of
\* rows of the momentum frame.
C22_LabelsPartition ==
    /\ out.op = "classify" => out.status \in MomentumLabels
    /\ MomentumShown =>
          /\ \A r \in OutRows : r.status \in MomentumLabels
          /\ out.rising + out.stable + out.falling = Len(out.momentum_df)
          /\ \A i \in 1..Len(out.momentum_df) :
                Cardinality({l \in MomentumLabels : out.momentum_df[i].status = l}) = 1

\* A frame of two rows, one game Rising and one Falling, none Stable
C22_Witness ==
    /\ MomentumShown
    /\ Len(out.momentum_df) = 2
    /\ out.rising = 1 /\ out.stable = 0 /\ out.falling = 1

\* ------------------------------------------------------------------ player count trends

\* NULLIF(x, v)
NullIf(x, v) == IF x # NULL /\ Val(x) = v THEN NULL ELSE x

PctChange_ZeroDefault(cur, prev) ==
    IF prev = NULL \/ Val(prev) = 0 THEN Some(0)
    ELSE Some(RoundDiv((cur - Val(prev)) * 100 * 100, Val(prev)))

\* ROUND((cur - LAG(cur)) * 100.0 / NULLIF(LAG(cur), 0), 2), in hundredths;
\* NULL when an operand is NULL.  Counts are not negative, so the divisor is
\* positive.
PctChange(cur, prev) ==
    LET divisor == NullIf(prev, 0)
    IN IF prev = NULL \/ divisor = NULL THEN NULL
       ELSE Some(RoundDiv((cur - Val(prev)) * 100 * 100, Val(divisor)))

\* cur - LAG(cur)
PlayerDiff(cur, prev) == SqlMinus(Some(cur), prev)

\* WHERE appid IN (appids)
SelectedRows(appids) == {r \in player_count : r.appid \in appids}

HourKey(r) == <<r.run_date, r.run_hour>>

\* LAG(current_players) OVER (PARTITION BY appid ORDER BY run_date, run_hour):
\* the column of the row just before r, where `before` holds the rows of r's
\* partition that sort before it; NULL for the first row of a partition.
LagPlayers(before) ==
    IF before = {} THEN NULL
    ELSE LET last == CHOOSE q \in before :
                        \A p \in before : p = q \/ TupleLess(HourKey(p), HourKey(q))
         IN Some(last.current_players)

\* The hourly query: one row per sample
HourlyTrendRows(appids) ==
    LET rows == SelectedRows(appids)
    IN {LET before == {q \in rows : q.appid = r.appid /\ TupleLess(HourKey(q), HourKey(r))}
            prev == LagPlayers(before)
        IN [appid |-> r.appid, run_date |-> r.run_date, run_hour |-> r.run_hour,
            current_players |-> r.current_players,
            prev_players |-> prev,
            player_diff |-> PlayerDiff(r.current_players, prev),
            pct_change |-> PctChange(r.current_players, prev)] : r \in rows}

\* daily_totals: ROUND(SUM(current_players) / 1000) per (appid, run_date)
DailyTotals(appids) ==
    LET rows == SelectedRows(appids)
    IN {[appid |-> k[1], run_date |-> k[2],
         players_k |-> RoundDiv(SumPlayers({r \in rows : r.appid = k[1] /\ r.run_date = k[2]}),
                                1000)] :
            k \in {<<r.appid, r.run_date>> : r \in rows}}

\* LAG(players_k) OVER (PARTITION BY appid ORDER BY run_date)
LagPlayersK(before) ==
    IF before = {} THEN NULL
    ELSE LET last == CHOOSE q \in before :
                        \A p \in before : p = q \/ p.run_date < q.run_date
         IN Some(last.players_k)

\* The daily query: one row per (appid, run_date)
DailyTrendRows(appids) ==
    LET rows == DailyTotals(appids)
    IN {LET before == {q \in rows : q.appid = r.appid /\ q.run_date < r.run_date}
            prev == LagPlayersK(before)
        IN [appid |-> r.appid, run_date |-> r.run_date,
            players_k |-> r.players_k,
            prev_players_k |-> prev,
            player_diff_k |-> PlayerDiff(r.players_k, prev),
            pct_change |-> PctChange(r.players_k, prev)] : r \in rows}

\* fetch_player_count_trends(_connection, appids); the frame's rows come
\* ordered by (appid, run_date), which their fields determine
fetch_player_count_trends(appids) ==
    /\ out = NoResult
    /\ trending_games = {} /\ games_cleaned = {}
    /\ \E failed \in QueryFailures(IF appids = {} THEN 0 ELSE 1) :
          out' = [op |-> "fetch_player_count_trends", appids |-> appids,
                  queries |-> IF appids = {} THEN 0 ELSE 1,
                  error |-> failed # 0,
                  raised |-> FALSE,
                  result |-> IF appids = {} \/ failed # 0 THEN {}
                             ELSE DailyTrendRows(appids)]
    /\ UNCHANGED <<trending_games, games_cleaned, player_count>>
    /\ UNCHANGED session
    /\ UNCHANGED game_catalog

\* fetch_player_count_trends_hourly(_connection, appids); rows ordered by
\* (appid, run_date, run_hour)
fetch_player_count_trends_hourly(appids) ==
    /\ out = NoResult
    /\ trending_games = {} /\ games_cleaned = {}
    /\ \E failed \in QueryFailures(IF appids = {} THEN 0 ELSE 1) :
          out' = [op |-> "fetch_player_count_trends_hourly", appids |-> appids,
                  queries |-> IF appids = {} THEN 0 ELSE 1,
                  error |-> failed # 0,
                  raised |-> FALSE,
                  result |-> IF appids = {} \/ failed # 0 THEN {}
                             ELSE HourlyTrendRows(appids)]
    /\ UNCHANGED <<trending_games, games_cleaned, player_count>>
    /\ UNCHANGED session
    /\ UNCHANGED game_catalog

NextTrends ==
    \/ \E a \in TrendAppIds, d \in Dates, h \in PlayerHours, v \in PlayerValues :
          IngestPlayer(a, d, h, v)
    \/ \E appids \in SUBSET TrendAppIds : fetch_player_count_trends(appids)
    \/ \E appids \in SUBSET TrendAppIds : fetch_player_count_trends_hourly(appids)

SpecTrends == Init /\ [][NextTrends]_vars

\* The momentum view and the two trend fetches together
NextDelta == NextMomentum \/ NextTrends
SpecDelta == Init /\ [][NextDelta]_vars

\* The comparison columns of a trend row, whichever query it is from
IsDaily == out.op = "fetch_player_count_trends"
IsHourly == out.op = "fetch_player_count_trends_hourly"
TrendCur(r) == IF IsDaily THEN r.players_k ELSE r.current_players
TrendPrev(r) == IF IsDaily THEN r.prev_players_k ELSE r.prev_players
TrendDiff(r) == IF IsDaily THEN r.player_diff_k ELSE r.player_diff

\* The afternoon mean of appid a before COALESCE: NULL when a has no
\* afternoon sample
AfternoonValue(a) == IF a \in AfternoonAppids THEN Some(MeanOf(a, 13, 23)) ELSE NULL

\* C7 as stated: delta is current - previous when both are present and 0
\* when either is null, for the momentum delta and for player_diff_k and
\* player_diff of the trend queries.
C7_DeltaZeroWhenNull ==
    /\ MomentumShown =>
          \A r \in OutRows :
              r.delta = IF AfternoonValue(r.appid) = NULL \/ r.avg_morning = NULL
                        THEN Some(0)
                        ELSE Some(Val(AfternoonValue(r.appid)) - Val(r.avg_morning))
    /\ (IsDaily \/ IsHourly) =>
          \A r \in out.result :
              TrendDiff(r) = IF TrendPrev(r) = NULL THEN Some(0)
                             ELSE Some(TrendCur(r) - Val(TrendPrev(r)))

\* C7, amended: the momentum delta is afternoon - morning when both are
\* present and 0 when one is null; player_diff_k and player_diff are
\* current - previous when the previous value is present and null, not 0,
\* when it is null.
C7_DeltaNullInTrends ==
    /\ MomentumShown =>
          \A r \in OutRows :
              r.delta = IF AfternoonValue(r.appid) = NULL \/ r.avg_morning = NULL
                        THEN Some(0)
                        ELSE Some(Val(AfternoonValue(r.appid)) - Val(r.avg_morning))
    /\ (IsDaily \/ IsHourly) =>
          \A r \in out.result :
              TrendDiff(r) = IF TrendPrev(r) = NULL THEN NULL
                             ELSE Some(TrendCur(r) - Val(TrendPrev(r)))

\* A first sample followed by a second one of the same app: a null and a
\* numeric difference in one frame
C7_Witness ==
    /\ IsDaily \/ IsHourly
    /\ \E r \in out.result : TrendPrev(r) = NULL /\ TrendDiff(r) = NULL
    /\ \E r \in out.result : TrendPrev(r) # NULL /\ Val(TrendDiff(r)) # 0

\* C8 as stated: pct_change is null when the previous value is null or 0 and
\* equals (current - previous) * 100 / previous otherwise.
C8_PctExact ==
    (IsDaily \/ IsHourly) =>
        \A r \in out.result :
            IF TrendPrev(r) = NULL \/ Val(TrendPrev(r)) = 0
            THEN r.pct_change = NULL
            ELSE /\ r.pct_change # NULL
                 /\ Val(r.pct_change) * Val(TrendPrev(r))
                        = (TrendCur(r) - Val(TrendPrev(r))) * 100 * 100

\* C8, amended: pct_change is null when the previous value is null or 0 and
\* otherwise is (current - previous) * 100 / previous rounded to two decimal
\* places: the nearest hundredth, the one farther from zero on a tie.
C8_PctRounded ==
    (IsDaily \/ IsHourly) =>
        \A r \in out.result :
            IF TrendPrev(r) = NULL \/ Val(TrendPrev(r)) = 0
            THEN r.pct_change = NULL
            ELSE /\ r.pct_change # NULL
                 /\ LET p == Val(TrendPrev(r))
                        exact == (TrendCur(r) - p) * 100 * 100   \* times p
                        got == Val(r.pct_change) * p
                    IN /\ 2 * Abs(got - exact) <= p
                       /\ 2 * Abs(got - exact) = p => Abs(got) > Abs(exact)

\* A frame with a first sample, a sample after a 0 and a sample whose
\* percentage does not end at the second decimal
C8_Witness ==
    /\ IsDaily \/ IsHourly
    /\ \E r \in out.result : TrendPrev(r) = NULL /\ r.pct_change = NULL
    /\ \E r \in out.result : TrendPrev(r) = Some(0) /\ r.pct_change = NULL
    /\ \E r \in out.result :
          /\ TrendPrev(r) # NULL /\ Val(TrendPrev(r)) # 0
          /\ Val(r.pct_change) * Val(TrendPrev(r))
                 # (TrendCur(r) - Val(TrendPrev(r))) * 100 * 100

\* ------------------------------------------------------------------ the trend pages

\* The date picked in the sidebar
SelectedDate == 1
GameNames == {"A", "B"}
\* The order of names, for MAX(name) and sorted()
NameRank(name) == IF name = "A" THEN 1 ELSE 2
Top20Limit == 20

\* player_count pa LEFT JOIN games_cleaned gc ON pa.appid = gc.appid WHERE
\* pa.run_date = run_date: one record per pair of matching rows, and one with
\* a NULL name for a pa row without a match
Top20Joined(run_date) ==
    LET pa == {r \in player_count : r.run_date = run_date}
    IN {[current_players |-> x[1].current_players, pa_key |-> PlayerKey(x[1]),
         appid |-> x[1].appid, name |-> Some(x[2].name), gc_key |-> GameKey(x[2])] :
           x \in {y \in pa \X games_cleaned : y[1].appid = y[2].appid}}
       \cup {[current_players |-> r.current_players, pa_key |-> PlayerKey(r),
               appid |-> r.appid, name |-> NULL, gc_key |-> <<>>] :
                 r \in {q \in pa : \A g \in games_cleaned : g.appid # q.appid}}

\* GROUP BY pa.appid, gc.name with ROUND(SUM(pa.current_players) / 1000)
Top20Groups(run_date) ==
    LET joined == Top20Joined(run_date)
    IN {[appid |-> k[1], name |-> k[2],
         total_players_k |->
             RoundDiv(SumPlayers({j \in joined : j.appid = k[1] /\ j.name = k[2]}), 1000)] :
           k \in {<<j.appid, j.name>> : j \in joined}}

\* ORDER BY total_players_k DESC, rows equal in it in any order
RECURSIVE OrderByTotalPlayersDesc(_)
OrderByTotalPlayersDesc(rows) ==
    IF rows = {} THEN {<<>>}
    ELSE UNION {{<<r>> \o t : t \in OrderByTotalPlayersDesc(rows \ {r})} :
                   r \in {x \in rows :
                              \A y \in rows : y.total_players_k <= x.total_players_k}}

\* What the query of fetch_top_20_games can return
Top20Games(run_date) ==
    {SqlLimit(ordered, Top20Limit) : ordered \in OrderByTotalPlayersDesc(Top20Groups(run_date))}

\* {row['name']: row['appid'] for _, row in df.iterrows()}: a later row with
\* the same name replaces the earlier one
GameOptions(df) ==
    [name \in {df[i].name : i \in 1..Len(df)} |->
        LET last == CHOOSE i \in 1..Len(df) :
                        /\ df[i].name = name
                        /\ \A j \in 1..Len(df) : df[j].name = name => j <= i
        IN df[last].appid]

\* sorted(list(game_options.keys())) raises TypeError when None stands among
\* the names
SortedRaises(game_options) ==
    NULL \in DOMAIN game_options /\ DOMAIN game_options # {NULL}

\* A page of one of the two trend views.  chart tells whether the chart and
\* the table were rendered, raised whether an exception left the view.
TrendsPage(op, shown, chart, warning, error, game_options, selected_appids, trend_data) ==
    [op |-> op, shown |-> shown, chart |-> chart, warning |-> warning,
     error |-> error, raised |-> shown = "exception",
     game_options |-> game_options, selected_appids |-> selected_appids,
     trend_data |-> trend_data]

\* fetch_player_count_trends for the daily view, fetch_player_count_trends_hourly
\* for the hourly one
TrendRowsOf(op, appids) ==
    IF op = "show_players_count_trends" THEN DailyTrendRows(appids)
    ELSE HourlyTrendRows(appids)

\* The pages a trend view renders once its games are known: the user's
\* selection, the trend fetch and the chart
SelectionPages(op, game_options) ==
    IF SortedRaises(game_options)
    THEN {TrendsPage(op, "exception", FALSE, FALSE, FALSE, game_options, {}, {})}
    ELSE UNION {
        IF selected_games = {}
        THEN \* st.info("Please select at least one game ...") and return
             {TrendsPage(op, "no_selection", FALSE, FALSE, FALSE, game_options, {}, {})}
        ELSE LET selected_appids == {game_options[g] : g \in selected_games}
             IN {LET trend_data == IF failed = 0 THEN TrendRowsOf(op, selected_appids) ELSE {}
                 IN IF trend_data = {}
                    THEN TrendsPage(op, "no_trend_data", FALSE, TRUE, failed # 0,
                                    game_options, selected_appids, {})
                    ELSE TrendsPage(op, "chart", TRUE, FALSE, FALSE,
                                    game_options, selected_appids, trend_data) :
                   failed \in QueryFailures(1)} :
          selected_games \in SUBSET DOMAIN game_options}

\* st.warning("No data available for ...") and return
NoTrendsPage(op, error) == TrendsPage(op, "no_data", FALSE, TRUE, error, <<>>, {}, {})

\* The pages show_players_count_trends can render
PlayersCountTrendsPages ==
    UNION {IF failed # 0 \/ top_20_games = <<>>
           THEN {NoTrendsPage("show_players_count_trends", failed # 0)}
           ELSE SelectionPages("show_players_count_trends", GameOptions(top_20_games)) :
             failed \in QueryFailures(1), top_20_games \in Top20Games(SelectedDate)}

\* MAX(name) over the rows of one appid
MaxName(rows) ==
    (CHOOSE r \in rows : \A q \in rows : NameRank(q.name) <= NameRank(r.name)).name

RECURSIVE OrderByAppid(_)
\* ORDER BY appid
OrderByAppid(rows) ==
    IF rows = {} THEN <<>>
    ELSE LET r == CHOOSE x \in rows : \A y \in rows : x.appid <= y.appid
         IN <<r>> \o OrderByAppid(rows \ {r})

\* The query of fetch_all_games: one row per appid of the date
AllGames ==
    OrderByAppid({[appid |-> a,
                   name |-> Some(MaxName({r \in games_cleaned : r.appid = a}))] :
                     a \in {r.appid : r \in games_cleaned}})

\* The pages show_player_count_trends_hourly can render
PlayerCountTrendsHourlyPages ==
    UNION {LET all_games == IF failed = 0 THEN AllGames ELSE <<>>
           IN IF all_games = <<>>
              THEN {NoTrendsPage("show_player_count_trends_hourly", failed # 0)}
              ELSE SelectionPages("show_player_count_trends_hourly", GameOptions(all_games)) :
             failed \in QueryFailures(1)}

\* ------------------------------------------------------------------ developer performance

InfinityWardAppId == 1938090
DeveloperLimit == 20

\* CASE WHEN gc.appid = 1938090 THEN 'Infinity Ward' ELSE gc.developer END
DeveloperOf(gc) == IF gc.appid = InfinityWardAppId THEN "Infinity Ward" ELSE gc.developer

\* game_catalog gc LEFT JOIN games_cleaned g ON gc.appid = g.appid AND
\* g.run_date = %s WHERE gc.developer IS NOT NULL AND gc.developer != '':
\* the matched pairs; a catalog row without a match joins NULLs
DeveloperJoined ==
    {[developer |-> DeveloperOf(x[1]), appid |-> x[1].appid,
      current_players |-> x[2].current_players, g_key |-> GameKey(x[2])] :
        x \in {y \in game_catalog \X games_cleaned :
                  y[1].developer # "" /\ y[1].appid = y[2].appid}}

\* GROUP BY developer HAVING SUM(g.current_players) > 0: a developer whose
\* games have no row on the date has a NULL sum and is left out
DeveloperGroups ==
    {d \in {[developer |-> name,
             total_players |-> SumPlayers({j \in DeveloperJoined : j.developer = name}),
             game_count |-> Cardinality({gc.appid : gc \in
                                {c \in game_catalog :
                                    c.developer # "" /\ DeveloperOf(c) = name}})] :
               name \in {j.developer : j \in DeveloperJoined}} :
        d.total_players > 0}

\* ORDER BY total_players DESC, rows equal in it in any order
RECURSIVE OrderByTotalDesc(_)
OrderByTotalDesc(rows) ==
    IF rows = {} THEN {<<>>}
    ELSE UNION {{<<r>> \o t : t \in OrderByTotalDesc(rows \ {r})} :
                   r \in {x \in rows : \A y \in rows : y.total_players <= x.total_players}}

RECURSIVE SumTotalPlayers(_)
\* data['total_players'].sum()
SumTotalPlayers(data) ==
    IF data = <<>> THEN 0 ELSE Head(data).total_players + SumTotalPlayers(Tail(data))

\* data['market_share'] = (total_players / total_market_players * 100).round(1),
\* in tenths of a percent
WithMarketShare(data) ==
    [i \in 1..Len(data) |->
        [developer |-> data[i].developer,
         total_players |-> data[i].total_players,
         game_count |-> data[i].game_count,
         market_share |-> RoundHalfEven(data[i].total_players * 1000,
                                        SumTotalPlayers(data))]]

\* The pages show_developer_performance can render for the selected date
DeveloperPerformancePages ==
    {LET data == IF failed = 0 THEN SqlLimit(ordered, DeveloperLimit) ELSE <<>>
     IN IF data = <<>>
        THEN [op |-> "show_developer_performance", shown |-> "no_data",
              chart |-> FALSE, warning |-> TRUE, error |-> failed # 0, data |-> <<>>]
        ELSE [op |-> "show_developer_performance", shown |-> "chart",
              chart |-> TRUE, warning |-> FALSE, error |-> FALSE,
              data |-> WithMarketShare(data)] :
        failed \in QueryFailures(1), ordered \in OrderByTotalDesc(DeveloperGroups)}

\* ------------------------------------------------------------------ the dashboard

\* Rows the model lets games_cleaned and game_catalog hold under the dashboard
MaxListedRows == 2
MaxCatalogRows == 2
ListedAppIds == {1, 2}
ListedHours == {12}
ListedPrices == {0, 1000}
Developers == {"X", ""}

\* A full games_cleaned row of the one date collected so far
IngestListed(a, h, name, price) ==
    /\ out = NoResult
    /\ trending_games = {}
    /\ Cardinality(games_cleaned) < MaxListedRows
    /\ \A r \in games_cleaned : TupleLess(GameKey(r), <<a, h>>)
    /\ games_cleaned' = games_cleaned \cup
           {[appid |-> a, run_hour |-> h, name |-> name,
             current_players |-> 400, median_playtime_2weeks |-> 300,
             price_usd |-> price, positive_reviews |-> 9, negative_reviews |-> 1]}
    /\ UNCHANGED <<trending_games, player_count, game_catalog, out>>
    /\ UNCHANGED session

\* A player_count sample of hour 0, written before the games of the day
IngestSampled(a, d) ==
    /\ out = NoResult
    /\ trending_games = {} /\ games_cleaned = {}
    /\ Cardinality(player_count) < MaxPlayerRows
    /\ \A r \in player_count : TupleLess(PlayerKey(r), <<a, d, 0>>)
    /\ player_count' = player_count \cup
           {[appid |-> a, run_date |-> d, run_hour |-> 0, current_players |-> 1500]}
    /\ UNCHANGED <<trending_games, games_cleaned, game_catalog, out>>
    /\ UNCHANGED session

\* A game_catalog row, written before the samples
IngestCatalog(a, developer) ==
    /\ out = NoResult
    /\ trending_games = {} /\ games_cleaned = {} /\ player_count = {}
    /\ Cardinality(game_catalog) < MaxCatalogRows
    /\ \A r \in game_catalog : r.appid < a
    /\ game_catalog' = game_catalog \cup {[appid |-> a, developer |-> developer]}
    /\ UNCHANGED <<trending_games, games_cleaned, player_count, out>>
    /\ UNCHANGED session

\* The values of chart_options
Charts ==
    {"top_trending_games", "players_count_trends", "players_count_trends_hourly",
     "price_vs_review_sentiment", "developer_performance",
     "owners_vs_active_players_ratio", "release_date_vs_performance"}

\* get_db_connection without st.cache_resource: every call connects anew
ConnectionReturns_Reconnect == {"open", "none"}

\* get_db_connection under st.cache_resource: the first call connects, or
\* returns None when connecting fails; later calls return what the first did
ConnectionReturns == IF connection = NotConnected THEN {"open", "none"} ELSE {connection}

\* st.error(...) and st.stop(): the script ends before the title
StoppedPage(shown) ==
    [op |-> "dashboard", shown |-> shown, chart |-> FALSE, warning |-> FALSE,
     error |-> TRUE]

\* st.info("Analysis coming soon...")
ComingSoonPage ==
    [op |-> "dashboard", shown |-> "coming_soon", chart |-> FALSE, warning |-> FALSE,
     error |-> FALSE]

\* The query of fetch_available_dates, newest first: the model's games_cleaned
\* holds one date
AvailableDates == IF games_cleaned = {} THEN <<>> ELSE <<SelectedDate>>

\* The dispatch on chart_key
ChartPages(chart_key) ==
    CASE chart_key = "top_trending_games" -> TopTrendingGamesPages
      [] chart_key = "players_count_trends" -> PlayersCountTrendsPages
      [] chart_key = "players_count_trends_hourly" -> PlayerCountTrendsHourlyPages
      [] chart_key = "price_vs_review_sentiment" -> PriceSentimentPages
      [] chart_key = "developer_performance" -> DeveloperPerformancePages
      [] OTHER -> {ComingSoonPage}

dashboard_Truncating(selected_chart) ==
    /\ out = NoResult
    /\ trending_games = {}
    /\ connection' = "open"
    /\ out' = ComingSoonPage
    /\ games_cleaned' = {}
    /\ UNCHANGED <<trending_games, player_count, game_catalog, cache, clock>>

\* One run of dashboard.py with the chart picked in the sidebar, the first
\* since the process started, so that every cached fetch runs its body
dashboard(selected_chart) ==
    /\ out = NoResult
    /\ trending_games = {}
    /\ \E returned \in ConnectionReturns :
          /\ connection' = returned
          /\ IF returned = "none"
             THEN out' = StoppedPage("no_connection")
             ELSE \E failed \in QueryFailures(1) :
                  LET available_dates == IF failed = 0 THEN AvailableDates ELSE <<>>
                  IN IF available_dates = <<>>
                     THEN out' = StoppedPage("no_dates")
                     ELSE out' \in ChartPages(selected_chart)
    /\ UNCHANGED <<trending_games, games_cleaned, player_count, game_catalog, cache, clock>>

\* The three views above, called for the selected date
show_players_count_trends ==
    /\ out = NoResult
    /\ out' \in PlayersCountTrendsPages
    /\ UNCHANGED <<trending_games, games_cleaned, player_count, game_catalog>>
    /\ UNCHANGED session

show_player_count_trends_hourly ==
    /\ out = NoResult
    /\ out' \in PlayerCountTrendsHourlyPages
    /\ UNCHANGED <<trending_games, games_cleaned, player_count, game_catalog>>
    /\ UNCHANGED session

show_developer_performance ==
    /\ out = NoResult
    /\ out' \in DeveloperPerformancePages
    /\ UNCHANGED <<trending_games, games_cleaned, player_count, game_catalog>>
    /\ UNCHANGED session

NextDashboard ==
    \/ \E a \in ListedAppIds, developer \in Developers : IngestCatalog(a, developer)
    \/ \E a \in ListedAppIds, d \in Dates : IngestSampled(a, d)
    \/ \E a \in ListedAppIds, h \in ListedHours, name \in GameNames, price \in ListedPrices :
           IngestListed(a, h, name, price)
    \/ \E selected_chart \in Charts : dashboard(selected_chart)
    \/ show_top_trending_games
    \/ show_players_count_trends
    \/ show_player_count_trends_hourly
    \/ show_price_vs_review_sentiment
    \/ show_developer_performance

SpecDashboard == Init /\ [][NextDashboard]_vars

\* Streamlit runs dashboard.py again on every interaction: the page is
\* cleared and the script starts over in the same process
rerun ==
    /\ out # NoResult
    /\ out' = NoResult
    /\ UNCHANGED <<trending_games, games_cleaned, player_count, game_catalog>>
    /\ UNCHANGED session

\* Runs and reruns of the dashboard in one process.  The tables are filled
\* before the first run and stay as they are afterwards, so the pages of a
\* rerun that is answered from st.cache_data are among the pages computed
\* here from the tables.
NextSession ==
    \/ /\ connection = NotConnected
       /\ \/ \E a \in ListedAppIds, developer \in Developers : IngestCatalog(a, developer)
          \/ \E a \in ListedAppIds, d \in Dates : IngestSampled(a, d)
          \/ \E a \in ListedAppIds, h \in ListedHours, name \in GameNames,
                  price \in ListedPrices : IngestListed(a, h, name, price)
    \/ \E selected_chart \in Charts : dashboard(selected_chart)
    \/ rerun

SpecSession == Init /\ [][NextSession]_vars

\* C23: get_db_connection connects at most once per process: once it has
\* returned, a connection or None, every later run gets that same return
\* value, and a run renders past the connection check exactly when the
\* value is a connection.
C23_ConnectOnce ==
    [][/\ connection # NotConnected => connection' = connection
       /\ (out' # out /\ out'.op # "none") =>
             /\ connection' # NotConnected
             /\ out' = StoppedPage("no_connection") <=> connection' = "none"]_vars

\* Between two runs of a process whose first attempt to connect failed
C23_Witness ==
    /\ out = NoResult
    /\ connection = "none"
    /\ games_cleaned # {}

ViewOps ==
    {"show_top_trending_games", "show_players_count_trends",
     "show_player_count_trends_hourly", "show_price_vs_review_sentiment",
     "show_developer_performance"}

\* Whether the primary query of a view has no row for the selected date
PrimaryEmpty(op) ==
    CASE op = "show_top_trending_games" -> games_cleaned = {}
      [] op = "show_players_count_trends" ->
             {r \in player_count : r.run_date = SelectedDate} = {}
      [] op = "show_player_count_trends_hourly" -> games_cleaned = {}
      [] op = "show_price_vs_review_sentiment" ->
             {r \in games_cleaned : r.price_usd > 0 /\
                 r.positive_reviews + r.negative_reviews >= 10} = {}
      [] op = "show_developer_performance" ->
             {c \in game_catalog : c.developer # "" /\
                 \E g \in games_cleaned : g.appid = c.appid /\ g.current_players > 0} = {}

\* Whether a page carries no chart, metric or table
NothingRendered ==
    /\ ~out.chart
    /\ CASE out.op = "show_top_trending_games" ->
               out.momentum_df = <<>> /\ out.rising_games = <<>>
               /\ out.stable_games = <<>> /\ out.falling_games = <<>>
         [] out.op \in {"show_players_count_trends", "show_player_count_trends_hourly"} ->
               out.trend_data = {}
         [] out.op = "show_price_vs_review_sentiment" ->
               out.data = {} /\ out.bargains = {} /\ out.overpriced = {}
         [] out.op = "show_developer_performance" -> out.data = <<>>

\* C18: the data source is read-only: no run of the dashboard, no view and
\* no fetch changes a table.
C18_ReadOnly ==
    [][(out' # out \/ connection' # connection \/ cache' # cache) =>
          /\ trending_games' = trending_games
          /\ games_cleaned' = games_cleaned
          /\ player_count' = player_count
          /\ game_catalog' = game_catalog]_vars

\* A chart rendered by a run of the dashboard over three filled tables
C18_Witness ==
    /\ out.op \in ViewOps
    /\ out.chart
    /\ connection = "open"
    /\ games_cleaned # {} /\ player_count # {} /\ game_catalog # {}

\* C20: a view whose primary fetch comes back empty shows its 'no data'
\* warning and renders no chart, metric or table; the dashboard calls no
\* view when the connection is None or no date is available.
C20_NoDataNoChart ==
    /\ out.op \in ViewOps =>
          /\ (PrimaryEmpty(out.op) \/ out.shown = "no_data") =>
                 (out.shown = "no_data" /\ out.warning /\ NothingRendered)
          /\ connection # "none"
          /\ connection = "open" => games_cleaned # {}
    /\ (out.op # "none" /\ connection = "none") => out = StoppedPage("no_connection")
    /\ (out.op # "none" /\ connection = "open" /\ games_cleaned = {})
          => out = StoppedPage("no_dates")

\* The price page asked for through the dashboard on a date whose games are
\* all free: the warning alone
C20_Witness ==
    /\ out.op = "show_price_vs_review_sentiment"
    /\ connection = "open"
    /\ games_cleaned # {}
    /\ PrimaryEmpty(out.op)
    /\ ~out.error
    /\ out.shown = "no_data" /\ out.warning /\ ~out.chart


\* The appids the first fetch of a trend view returns for the selected date
FetchedAppids(op) ==
    IF op = "show_players_count_trends"
    THEN {r.appid : r \in {q \in player_count : q.run_date = SelectedDate}}
    ELSE {r.appid : r \in games_cleaned}

\* C27: in the two trend views the name -> appid mapping is a bijection
\* between the selectable names and the fetched appids: every fetched appid
\* is reached through exactly one name, and building the list of names and
\* looking the selection up raise nothing.
C27_NamesBijective ==
    (/\ out.op \in {"show_players_count_trends", "show_player_count_trends_hourly"}
     /\ out.shown # "no_data")
    => /\ ~out.raised
       /\ \A a \in FetchedAppids(out.op) :
             Cardinality({n \in DOMAIN out.game_options : out.game_options[n] = a}) = 1

\* ------------------------------------------------------------------ shares and percentages

\* The developers of the catalog, '' for a game without one
ShareDevelopers == {"X", "Y", ""}
\* current_players of a game, idle games included
SharePlayers == {0, 400}

\* A full games_cleaned row of a catalogued game
IngestPlayed(a, h, current_players) ==
    /\ out = NoResult
    /\ trending_games = {} /\ player_count = {}
    /\ Cardinality(games_cleaned) < MaxListedRows
    /\ \A r \in games_cleaned : TupleLess(GameKey(r), <<a, h>>)
    /\ games_cleaned' = games_cleaned \cup
           {[appid |-> a, run_hour |-> h, name |-> "A",
             current_players |-> current_players, median_playtime_2weeks |-> 300,
             price_usd |-> 1000, positive_reviews |-> 9, negative_reviews |-> 1]}
    /\ UNCHANGED <<trending_games, player_count, game_catalog, out>>
    /\ UNCHANGED session

\* The two views that divide by a sum of the fetched rows, over a catalogue
\* with its games or over games with prices and reviews
NextShares ==
    \/ /\ game_catalog = {}
       /\ \E a \in PricedAppIds, h \in PricedHours, price \in Prices,
              reviews \in ReviewCounts : IngestPriced(a, h, price, reviews)
    \/ \E a \in ListedAppIds, developer \in ShareDevelopers : IngestCatalog(a, developer)
    \/ /\ game_catalog # {}
       /\ \E a \in ListedAppIds, h \in ListedHours, current_players \in SharePlayers :
              IngestPlayed(a, h, current_players)
    \/ show_price_vs_review_sentiment
    \/ show_developer_performance

SpecShares == Init /\ [][NextShares]_vars

CACHE_TTL == 300
\* The last second the model's clock reaches
MaxClock == 450
\* Seconds between two events: 149 + 150 is just inside the ttl, 150 + 150
\* is the ttl
ClockSteps == {149, 150}
\* The (run_date, run_hour) windows and the appids the cached fetch is asked
\* about and the collector writes
CachedDates == {1}
CachedHours == {0, 1}
CachedAppIds == {1}

\* The collector adds a row while the dashboard is running
CollectTrending(d, h, a) ==
    /\ games_cleaned = {} /\ player_count = {}
    /\ Cardinality(trending_games) < MaxTrendingRows
    /\ \A r \in trending_games : TupleLess(TrendingKey(r), <<d, h, a>>)
    /\ trending_games' = trending_games \cup
           {[run_date |-> d, run_hour |-> h, appid |-> a]}
    /\ UNCHANGED <<games_cleaned, player_count, out>>
    /\ UNCHANGED session
    /\ UNCHANGED game_catalog

\* Time passes
Tick(seconds) ==
    /\ clock + seconds <= MaxClock
    /\ clock' = clock + seconds
    /\ UNCHANGED <<trending_games, games_cleaned, player_count, game_catalog,
                   out, connection, cache>>

CallKey(function, args) == <<function>> \o args

CacheFresh_Forever(entry) == TRUE
\* A cache that keeps only the results of successful queries
CacheFresh_SuccessOnly(entry) == ~entry.error /\ clock - entry.stored_at < CACHE_TTL
\* ttl=300
CacheFresh(entry) == clock - entry.stored_at < CACHE_TTL

\* The body of fetch_top_100_hourly: the appid set of the window, or the
\* empty set after st.error
Top100HourlyReturns(run_date, run_hour) ==
    {IF failed = 0 THEN [value |-> AppidSet(rows), error |-> FALSE]
     ELSE [value |-> {}, error |-> TRUE] :
        failed \in QueryFailures(1),
        rows \in LimitRows(TrendingWindow(run_date, run_hour), TopLimit)}

\* fetch_top_100_hourly(_connection, run_date, run_hour) through its cache.
\* hit tells whether the cache answered, queries counts the pd.read_sql
\* calls made and age is how long ago the returned value was computed.
fetch_top_100_hourly(run_date, run_hour) ==
    LET key == CallKey("fetch_top_100_hourly", <<run_date, run_hour>>)
    IN /\ IF key \in DOMAIN cache /\ CacheFresh(cache[key])
          THEN /\ out' = [op |-> "fetch_top_100_hourly",
                          run_date |-> run_date, run_hour |-> run_hour,
                          hit |-> TRUE, queries |-> 0,
                          age |-> clock - cache[key].stored_at,
                          error |-> cache[key].error,
                          result |-> cache[key].value]
               /\ UNCHANGED cache
          ELSE \E returned \in Top100HourlyReturns(run_date, run_hour) :
               /\ out' = [op |-> "fetch_top_100_hourly",
                          run_date |-> run_date, run_hour |-> run_hour,
                          hit |-> FALSE, queries |-> 1,
                          age |-> 0,
                          error |-> returned.error,
                          result |-> returned.value]
               /\ cache' = [k \in DOMAIN cache \cup {key} |->
                               IF k = key
                               THEN [value |-> returned.value,
                                     error |-> returned.error,
                                     stored_at |-> clock]
                               ELSE cache[k]]
       /\ UNCHANGED <<trending_games, games_cleaned, player_count, game_catalog,
                      connection, clock>>

NextCache ==
    \/ \E d \in CachedDates, h \in CachedHours, a \in CachedAppIds : CollectTrending(d, h, a)
    \/ \E seconds \in ClockSteps : Tick(seconds)
    \/ \E d \in CachedDates, h \in CachedHours : fetch_top_100_hourly(d, h)

SpecCache == Init /\ [][NextCache]_vars

\* C19: a cached fetch is memoized under its non-connection arguments for
\* 300 seconds.  A call made while the entry of its key is younger than 300 s
\* returns the stored result without a query; a call with no entry or an
\* expired one queries again and stores what it got; no result is served
\* at an age of 300 s or more.
C19_Memoized ==
    [][(out' # out /\ out'.op = "fetch_top_100_hourly") =>
          LET key == <<"fetch_top_100_hourly", out'.run_date, out'.run_hour>>
          IN /\ out'.age < 300
             /\ IF key \in DOMAIN cache /\ clock - cache[key].stored_at < 300
                THEN /\ out'.hit
                     /\ out'.queries = 0
                     /\ out'.result = cache[key].value
                     /\ out'.age = clock - cache[key].stored_at
                     /\ cache' = cache
                ELSE /\ ~out'.hit
                     /\ out'.queries = 1
                     /\ out'.age = 0
                     /\ out'.error \/
                           out'.result = {r.appid : r \in TrendingWindow(out'.run_date,
                                                                        out'.run_hour)}
                     /\ key \in DOMAIN cache'
                     /\ cache'[key].value = out'.result
                     /\ cache'[key].stored_at = clock
                     /\ \A k \in DOMAIN cache : k # key =>
                            (k \in DOMAIN cache' /\ cache'[k] = cache[k])]_vars

\* A result served from the cache 299 s after it was stored, the table having
\* changed since, while the other window's entry has been refreshed
C19_Witness ==
    /\ out.op = "fetch_top_100_hourly"
    /\ out.hit
    /\ ~out.error
    /\ out.age = 299
    /\ out.result # {r.appid : r \in TrendingWindow(out.run_date, out.run_hour)}
    /\ \E k \in DOMAIN cache : cache[k].stored_at > 0

\* C24: the empty result a fetch returns after catching a data source error
\* is memoized like any other: a call with the same arguments made less than
\* 300 s later gets the empty result from the cache and sends no query,
\* whatever the table holds by then.
C24_FallbackMemoized ==
    [][(out' # out /\ out'.op = "fetch_top_100_hourly") =>
          LET key == <<"fetch_top_100_hourly", out'.run_date, out'.run_hour>>
          IN /\ (key \in DOMAIN cache /\ cache[key].error
                    /\ clock - cache[key].stored_at < 300)
                 => (out'.hit /\ out'.queries = 0 /\ out'.result = {} /\ cache' = cache)
             /\ (~out'.hit /\ out'.error)
                 => (cache'[key].value = {} /\ cache'[key].stored_at = clock)]_vars

\* The empty fallback served 299 s after the failure, for a window that has
\* rows in the table
C24_Witness ==
    /\ out.op = "fetch_top_100_hourly"
    /\ out.hit
    /\ out.error
    /\ out.result = {}
    /\ out.age = 299
    /\ TrendingWindow(out.run_date, out.run_hour) # {}

====
